---- MODULE Spec2Model ----
(***************************************************************************)
(* Float-to-string conversion of lexical-core (ftoa/api.rs): the sign      *)
(* filter, the special-value filter, the dispatch to the digit generator   *)
(* and the trailing ".0" trim, together with the string-to-float parser    *)
(* the round-trip tests feed the output to.                                *)
(* Two further machines share the module: the options builders of         *)
(* util/options.rs (SpecOptions) and the parse functions of lib.rs         *)
(* (SpecParse).                                                            *)
(*                                                                         *)
(* Floats are binary floats in the IEEE-754 layout (sign bit, biased       *)
(* exponent field, mantissa field) of a reduced width, so that every value *)
(* of a width can be enumerated.  Bytes are one-character strings and a    *)
(* byte slice is a sequence of them.                                       *)
(***************************************************************************)
EXTENDS Integers, Sequences, FiniteSets, TLC

\* ------------------------------------------------------------------------
\* Bounds of the model
\* ------------------------------------------------------------------------

\* Width of the exponent field of both float types.
ExpBits == 3

\* Width of the mantissa field of the narrow type (f32).
MantBits32 == 2

\* Width of the mantissa field of the wide type (f64).
MantBits64 == 3

\* Bases a conversion is called with when the radix feature is compiled in.
Radixes == {2, 10, 36}

\* ------------------------------------------------------------------------
\* Float values (util Float trait; std f32/f64)
\* ------------------------------------------------------------------------

Types == {"f32", "f64"}

RECURSIVE Pow(_, _)
Pow(b, n) == IF n = 0 THEN 1 ELSE b * Pow(b, n - 1)

MantBits(t) == IF t = "f32" THEN MantBits32 ELSE MantBits64

\* Exponent field with all bits set: infinities and NaNs.
SpecialExp == Pow(2, ExpBits) - 1

ExpBias == Pow(2, ExpBits - 1) - 1

\* Every bit pattern of type t.
Floats(t) == [s : {0, 1}, e : 0..SpecialExp, m : 0..(Pow(2, MantBits(t)) - 1)]

is_zero(v) == v.e = 0 /\ v.m = 0

is_nan(v) == v.e = SpecialExp /\ v.m # 0

\* Infinite or NaN.
is_special(v) == v.e = SpecialExp

is_inf(v) == v.e = SpecialExp /\ v.m = 0

is_sign_negative(v) == v.s = 1

is_sign_positive(v) == v.s = 0

is_finite(v) == v.e # SpecialExp

\* Unary minus: flips the sign bit, also of zeros, infinities and NaNs.
Neg(v) == [v EXCEPT !.s = 1 - v.s]

\* Number of fraction bits of the fixed-point grid every finite value of
\* type t lies on: |v| = Magnitude(t, v) / 2^GridBits(t).
GridBits(t) == ExpBias + MantBits(t) - 1

\* Unit in the last place of v, in grid units.
Ulp(v) == IF v.e = 0 THEN 1 ELSE Pow(2, v.e - 1)

\* |v| in grid units (subnormals have no hidden bit).
Magnitude(t, v) ==
    IF v.e = 0 THEN v.m ELSE (Pow(2, MantBits(t)) + v.m) * Pow(2, v.e - 1)

\* The comparison of the language (PartialEq): NaN is equal to nothing and
\* the two zeros are equal.
FloatEq(t, a, b) ==
    /\ ~is_nan(a)
    /\ ~is_nan(b)
    /\ \/ a = b
       \/ is_zero(a) /\ is_zero(b)

\* ------------------------------------------------------------------------
\* Bytes
\* ------------------------------------------------------------------------

DigitChars ==
    << "0", "1", "2", "3", "4", "5", "6", "7", "8", "9",
       "A", "B", "C", "D", "E", "F", "G", "H", "I", "J", "K", "L", "M",
       "N", "O", "P", "Q", "R", "S", "T", "U", "V", "W", "X", "Y", "Z" >>

LowerChars ==
    << "0", "1", "2", "3", "4", "5", "6", "7", "8", "9",
       "a", "b", "c", "d", "e", "f", "g", "h", "i", "j", "k", "l", "m",
       "n", "o", "p", "q", "r", "s", "t", "u", "v", "w", "x", "y", "z" >>

\* Digit value to byte.
digit_to_char(d) == DigitChars[d + 1]

\* Byte to digit value in base r, or -1 when the byte is no digit of base r.
to_digit(c, r) ==
    IF \E i \in 1..r : DigitChars[i] = c \/ LowerChars[i] = c
    THEN (CHOOSE i \in 1..r : DigitChars[i] = c \/ LowerChars[i] = c) - 1
    ELSE -1

ends_with_slice(bytes, suffix) ==
    /\ Len(bytes) >= Len(suffix)
    /\ SubSeq(bytes, Len(bytes) - Len(suffix) + 1, Len(bytes)) = suffix

starts_with_slice(bytes, prefix) ==
    /\ Len(bytes) >= Len(prefix)
    /\ SubSeq(bytes, 1, Len(prefix)) = prefix

\* Marker of the exponent in base r: 'e' is a digit from base 15 on.
exponent_notation_char(r) == IF r >= 15 THEN "^" ELSE "e"

\* ------------------------------------------------------------------------
\* Digit generator (ftoa grisu2 / radix back-ends)
\* ------------------------------------------------------------------------

\* Largest magnitude of the exponent that is still written in fixed layout.
MaxFixedExp == 2

\* Scale the remainder R/S, with half-gaps Mp/S above and Mm/S below, so
\* that the upper boundary lies in [1/r, 1): the value is then
\* 0.d1 d2 ... * r^k.  incl: the boundaries themselves round to the value
\* (even mantissa).
RECURSIVE scale(_, _, _, _, _, _, _)
scale(R, S, Mp, Mm, k, r, incl) ==
    IF (IF incl THEN R + Mp >= S ELSE R + Mp > S)
    THEN scale(R, S * r, Mp, Mm, k + 1, r, incl)
    ELSE IF (IF incl THEN (R + Mp) * r < S ELSE (R + Mp) * r <= S)
    THEN scale(R * r, S, Mp * r, Mm * r, k - 1, r, incl)
    ELSE [R |-> R, S |-> S, Mp |-> Mp, Mm |-> Mm, k |-> k]

\* The digit-emission loop without the boundary test: digits are emitted
\* until the remainder is exhausted.
RECURSIVE generate_digits_exact(_, _, _, _, _, _, _)
generate_digits_exact(R, S, Mp, Mm, r, incl, acc) ==
    LET R1 == R * r
        d  == R1 \div S
        R2 == R1 % S
    IN  IF R2 = 0 THEN Append(acc, d)
        ELSE generate_digits_exact(R2, S, Mp, Mm, r, incl, Append(acc, d))

\* Digit-emission loop: multiply the fractional remainder by the base, take
\* the integer part as the next digit, and stop as soon as the digits
\* emitted so far, truncated or rounded up, lie strictly between the two
\* boundaries (or on them, when incl).
RECURSIVE generate_digits(_, _, _, _, _, _, _)
generate_digits(R, S, Mp, Mm, r, incl, acc) ==
    LET R1   == R * r
        d    == R1 \div S
        R2   == R1 % S
        Mp1  == Mp * r
        Mm1  == Mm * r
        low  == IF incl THEN R2 <= Mm1 ELSE R2 < Mm1
        high == IF incl THEN R2 + Mp1 >= S ELSE R2 + Mp1 > S
    IN  IF ~low /\ ~high
        THEN generate_digits(R2, S, Mp1, Mm1, r, incl, Append(acc, d))
        ELSE IF low /\ ~high THEN Append(acc, d)
        ELSE IF high /\ ~low THEN Append(acc, d + 1)
        ELSE Append(acc, IF 2 * R2 < S THEN d ELSE d + 1)

\* Shortest digits of the positive finite non-zero v in base r:
\* v = 0.d1 ... dn * r^k, as [digits, k].  The boundaries are half the gap
\* to the neighbouring floats; the gap below a power of two is half the gap
\* above it.
shortest_digits(t, v, r) ==
    LET u    == Ulp(v)
        incl == v.m % 2 = 0
        Mm   == IF v.m = 0 /\ v.e >= 2 THEN u ELSE 2 * u
        sc   == scale(4 * Magnitude(t, v), 4 * Pow(2, GridBits(t)),
                      2 * u, Mm, 0, r, incl)
    IN  [digits |-> generate_digits(sc.R, sc.S, sc.Mp, sc.Mm, r, incl, << >>),
         k      |-> sc.k]

RECURSIVE zeros(_)
zeros(n) == IF n <= 0 THEN << >> ELSE << "0" >> \o zeros(n - 1)

\* The digit values ds as bytes.
digit_bytes(ds) == [i \in 1..Len(ds) |-> digit_to_char(ds[i])]

\* The non-negative integer n in base r, most significant digit first.
RECURSIVE itoa(_, _)
itoa(n, r) ==
    IF n < r THEN << digit_to_char(n) >>
    ELSE Append(itoa(n \div r, r), digit_to_char(n % r))

\* Lay the digits out: fixed layout while the exponent is small, otherwise
\* one digit, the point, the other digits, the exponent marker and the
\* exponent in base r.  There is always a digit on each side of the point.
emit_digits(ds, k, r) ==
    LET n   == Len(ds)
        e   == k - 1
        bs  == digit_bytes(ds)
    IN  IF e >= 0 /\ e < MaxFixedExp
        THEN IF n <= e + 1
             THEN bs \o zeros(e + 1 - n) \o << ".", "0" >>
             ELSE SubSeq(bs, 1, e + 1) \o << "." >> \o SubSeq(bs, e + 2, n)
        ELSE IF e < 0 /\ (0 - e) < MaxFixedExp
        THEN << "0", "." >> \o zeros((0 - e) - 1) \o bs
        ELSE << bs[1], "." >>
             \o (IF n = 1 THEN << "0" >> ELSE SubSeq(bs, 2, n))
             \o << exponent_notation_char(r) >>
             \o (IF e < 0 THEN << "-" >> ELSE << >>)
             \o itoa(IF e < 0 THEN 0 - e ELSE e, r)

\* Digit generator of either type and any base.
generate(t, v, r) ==
    LET sd == shortest_digits(t, v, r)
    IN  emit_digits(sd.digits, sd.k, r)

float_decimal(v) == generate("f32", v, 10)

double_decimal(v) == generate("f64", v, 10)

float_radix(v, r) == generate("f32", v, r)

double_radix(v, r) == generate("f64", v, r)

\* ------------------------------------------------------------------------
\* String-to-float parser (atof), called by the round-trip tests
\* ------------------------------------------------------------------------

\* Consume digits of base r from position i on: the accumulated integer,
\* the number of digits consumed and the position of the first byte that
\* is no digit.
RECURSIVE parse_digits(_, _, _, _, _)
parse_digits(bytes, i, r, acc, cnt) ==
    IF i <= Len(bytes) /\ to_digit(bytes[i], r) >= 0
    THEN parse_digits(bytes, i + 1, r, acc * r + to_digit(bytes[i], r), cnt + 1)
    ELSE [val |-> acc, cnt |-> cnt, pos |-> i]

infinity(t) == [s |-> 0, e |-> SpecialExp, m |-> 0]

nan(t) == [s |-> 0, e |-> SpecialExp, m |-> 1]

zero(t) == [s |-> 0, e |-> 0, m |-> 0]

\* Shift the integer q right until it fits the mantissa with its hidden
\* bit: the truncated mantissa and the exponent field it belongs to.
RECURSIVE normalize(_, _, _)
normalize(t, q, e) ==
    IF q < Pow(2, MantBits(t) + 1) THEN [mant |-> q, e |-> e]
    ELSE normalize(t, q \div 2, e + 1)

\* The float of a truncated mantissa and exponent field; past the largest
\* exponent it is infinite.
from_mantissa(t, n) ==
    IF n.mant < Pow(2, MantBits(t)) THEN [s |-> 0, e |-> 0, m |-> n.mant]
    ELSE IF n.e >= SpecialExp THEN infinity(t)
    ELSE [s |-> 0, e |-> n.e, m |-> n.mant - Pow(2, MantBits(t))]

\* to_nearest that drops the remainder instead of rounding.
to_nearest_truncated(t, num, den) ==
    from_mantissa(t, normalize(t, (num * Pow(2, GridBits(t))) \div den, 1))

\* The float of type t nearest to num/den (num >= 0, den > 0), ties to the
\* even mantissa; a value that rounds past the largest finite float is
\* infinite.
to_nearest(t, num, den) ==
    LET scaled == num * Pow(2, GridBits(t))
        q      == scaled \div den
        rem    == scaled % den
        lo     == normalize(t, q, 1)
        ulp    == Pow(2, lo.e - 1)
        loMag  == lo.mant * ulp
        hi     == normalize(t, lo.mant + 1, lo.e)
        twice  == 2 * ((q - loMag) * den + rem)
        gap    == ulp * den
    IN  IF twice < gap THEN from_mantissa(t, lo)
        ELSE IF twice > gap THEN from_mantissa(t, hi)
        ELSE IF lo.mant % 2 = 0 THEN from_mantissa(t, lo)
        ELSE from_mantissa(t, hi)

\* val * r^exp, or cap once it reaches cap.
RECURSIVE scaled_capped(_, _, _, _)
scaled_capped(val, r, exp, cap) ==
    IF val >= cap THEN cap
    ELSE IF exp = 0 THEN val
    ELSE scaled_capped(val * r, r, exp - 1, cap)

\* r^k > x, for x >= 0.
RECURSIVE power_exceeds(_, _, _)
power_exceeds(r, k, x) ==
    IF x = 0 THEN TRUE
    ELSE IF k = 0 THEN FALSE
    ELSE power_exceeds(r, k - 1, x \div r)

\* The float of type t nearest to val * r^exp: infinite from twice the
\* largest power of two on, zero below half the smallest subnormal.
to_float(t, val, exp, r) ==
    LET limit == Pow(2, SpecialExp - ExpBias)
    IN  IF val = 0 THEN zero(t)
        ELSE IF exp >= 0
        THEN IF scaled_capped(val, r, exp, limit) >= limit THEN infinity(t)
             ELSE to_nearest(t, val * Pow(r, exp), 1)
        ELSE IF ~power_exceeds(r, 0 - exp, val \div limit) THEN infinity(t)
        ELSE IF power_exceeds(r, 0 - exp, val * Pow(2, GridBits(t) + 1)) THEN zero(t)
        ELSE to_nearest(t, val, Pow(r, 0 - exp))

\* The digits of the number up to the end of its fraction, given its
\* integer digits ip: a point is part of the number only with a digit
\* after it.
number_fraction(slc, r, ip) ==
    IF /\ ip.cnt > 0
       /\ ip.pos < Len(slc)
       /\ slc[ip.pos] = "."
       /\ to_digit(slc[ip.pos + 1], r) # -1
    THEN parse_digits(slc, ip.pos + 1, r, ip.val, 0)
    ELSE [val |-> ip.val, cnt |-> 0, pos |-> ip.pos]

\* The digits of the exponent behind the mantissa that ends before
\* position pos: marker, optional sign, digits of base r.
number_exponent(slc, r, pos) ==
    IF pos <= Len(slc) /\ slc[pos] = exponent_notation_char(r)
    THEN IF pos + 1 <= Len(slc) /\ slc[pos + 1] \in {"-", "+"}
         THEN parse_digits(slc, pos + 2, r, 0, 0)
         ELSE parse_digits(slc, pos + 1, r, 0, 0)
    ELSE [val |-> 0, cnt |-> 0, pos |-> pos]

\* The number made of the integer digits ip, the digits up to the end of
\* the fraction fp and the exponent digits ep: a marker is part of the
\* number only with a digit after it.
number_parts(slc, ip, fp, ep) ==
    IF ip.cnt > 0 /\ ep.cnt > 0
    THEN [val |-> fp.val,
          exp |-> (IF slc[fp.pos + 1] = "-" THEN 0 - ep.val ELSE ep.val) - fp.cnt,
          cnt |-> ip.cnt + fp.cnt,
          pos |-> ep.pos]
    ELSE [val |-> fp.val,
          exp |-> 0 - fp.cnt,
          cnt |-> ip.cnt + fp.cnt,
          pos |-> fp.pos]

number_mantissa(slc, r, ip, fp) ==
    number_parts(slc, ip, fp, number_exponent(slc, r, fp.pos))

number_integer(slc, r, ip) ==
    number_mantissa(slc, r, ip, number_fraction(slc, r, ip))

\* The number at the front of the slice, from position start on: digits,
\* an optional point followed by fraction digits, and an optional
\* exponent, as the integer val of all the mantissa digits and the
\* exponent exp of the base that scales it.  Parsing stops at pos, the
\* first byte that is not part of the number.
number(slc, start, r) ==
    number_integer(slc, r, parse_digits(slc, start, r, 0, 0))

\* Unchecked parse of bytes as a float of type t in base r: an optional
\* sign, then a special spelling or a number.
atof(t, bytes, r, nan_string, inf_string) ==
    LET n      == Len(bytes)
        signed == n >= 1 /\ bytes[1] \in {"-", "+"}
        neg    == n >= 1 /\ bytes[1] = "-"
        start  == IF signed THEN 2 ELSE 1
        body   == SubSeq(bytes, start, n)
        num    == number(bytes, start, r)
        abs    == IF starts_with_slice(body, nan_string) THEN nan(t)
                  ELSE IF starts_with_slice(body, inf_string) THEN infinity(t)
                  ELSE to_float(t, num.val, num.exp, r)
    IN  IF neg /\ ~is_nan(abs) THEN Neg(abs) ELSE abs

\* ------------------------------------------------------------------------
\* State
\* ------------------------------------------------------------------------

VARIABLES
    trim_floats,    \* build feature "trim_floats"
    radix_feature,  \* build feature "radix"
    NAN_STRING,     \* process-wide spelling of NaN
    INF_STRING,     \* process-wide spelling of infinity
    ty,             \* float type of the call in progress
    arg,            \* value the call was made with
    radix,          \* base the call was made with
    value,          \* local `value` of filter_sign / filter_special
    capacity,       \* length of the destination buffer of the call
    bytes,          \* bytes written to the destination buffer so far
    pc,             \* function the call is in
    called,         \* functions the call has entered
    result,         \* slice the call returned
    prev,           \* the preceding call, when this one is its negation
    parsed,         \* what the parser made of the returned slice
    format_feature, \* build feature "format"
    rounding_feature, \* build feature "rounding"
    kind,           \* options type being built
    builder,        \* fields of the builder
    built,          \* what build returned
    stage,          \* how far the construction of the options is
    origin,         \* function the options were asked from
    text,           \* bytes handed to a parse function
    target,         \* numeric type asked of the parse function
    outcome,        \* what the parse function returned
    threads,        \* the format call each thread is in and what it returned
    buffers         \* bytes written to each destination buffer so far

vars == << trim_floats, radix_feature, NAN_STRING, INF_STRING, ty, arg,
           radix, value, capacity, bytes, pc, called, result, prev, parsed,
           format_feature, rounding_feature, kind, builder, built, stage,
           origin, text, target, outcome, threads, buffers >>

config == << trim_floats, radix_feature, NAN_STRING, INF_STRING >>

\* State of one format call.
call == << ty, arg, radix, value, capacity, bytes, pc, called, result, prev,
          parsed >>

\* State of the threads that format concurrently.
concurrent == << threads, buffers >>

\* State of the construction of one options value.
options == << format_feature, rounding_feature, kind, builder, built, stage,
             origin >>

\* State of one parse call.
lexical == << text, target, outcome >>

\* Spellings the process may be configured with.
NanSpellings == { << "N", "a", "N" >>, << "n", "a", "n" >> }

InfSpellings == { << "i", "n", "f" >>, << "I", "n", "f", "i", "n", "i", "t", "y" >> }

DEFAULT_RADIX == 10

\* Published buffer sizes of the two widths, sized for the reduced floats.
MAX_F32_SIZE == 16

MAX_F64_SIZE == 24

MAX_SIZE(t) == IF t = "f32" THEN MAX_F32_SIZE ELSE MAX_F64_SIZE

\* Buffer lengths callers pass.
Capacities == {0, MAX_F32_SIZE - 1, MAX_F32_SIZE, MAX_F64_SIZE - 1, MAX_F64_SIZE}

NoCall == [valid |-> FALSE, value |-> zero("f32"), result |-> << >>]

NotParsed == [valid |-> FALSE, value |-> zero("f32")]

\* Bases the build accepts (debug_assert_radix).
Bases == IF radix_feature THEN Radixes ELSE {DEFAULT_RADIX}

None == [some |-> FALSE]

Some(x) == [some |-> TRUE, val |-> x]

\* No options are being built.
NoOptions ==
    /\ format_feature = FALSE
    /\ rounding_feature = FALSE
    /\ kind = "none"
    /\ builder = << >>
    /\ built = None
    /\ stage = "none"
    /\ origin = "none"

NoOutcome == [fn |-> "none"]

\* Nothing is being parsed.
NoParse ==
    /\ text = << >>
    /\ target = "i32"
    /\ outcome = NoOutcome

\* Threads of the process and their destination buffers, one each.
Threads == {1, 2}

NoThread ==
    [pc |-> "idle", ty |-> "f32", arg |-> zero("f32"), radix |-> DEFAULT_RADIX,
     value |-> zero("f32"), returned |-> << >>]

\* No thread has made a call.
NoThreads ==
    /\ threads = [i \in Threads |-> NoThread]
    /\ buffers = [i \in Threads |-> << >>]

\* No format call has been made.
NoFormat ==
    /\ ty = "f32"
    /\ arg = zero("f32")
    /\ radix = DEFAULT_RADIX
    /\ value = zero("f32")
    /\ capacity = 0
    /\ bytes = << >>
    /\ pc = "idle"
    /\ called = {}
    /\ result = << >>
    /\ prev = NoCall
    /\ parsed = NotParsed

Init ==
    /\ trim_floats \in BOOLEAN
    /\ radix_feature \in BOOLEAN
    /\ NAN_STRING \in NanSpellings
    /\ INF_STRING \in InfSpellings
    /\ NoFormat
    /\ NoOptions
    /\ NoParse
    /\ NoThreads

\* ------------------------------------------------------------------------
\* Operations
\* ------------------------------------------------------------------------

\* A buffer check that lets every buffer through.
assert_buffer_any(cap, size) == TRUE

\* generate_to_slice_api: the call goes on only with a buffer of at least
\* the published size.
assert_buffer(cap, size) == cap >= size

\* Entry of a call: f32toa_slice / f64toa_slice check the buffer against
\* the published size, then hand the value, the base and the buffer to
\* ftoa, which enters filter_sign; a short buffer panics.
toa_slice(t, v, base, before, cap, size) ==
    /\ ty' = t
    /\ arg' = v
    /\ radix' = base
    /\ value' = v
    /\ capacity' = cap
    /\ bytes' = << >>
    /\ pc' = IF assert_buffer(cap, size) THEN "filter_sign" ELSE "panic"
    /\ called' = {}
    /\ result' = << >>
    /\ prev' = before
    /\ parsed' = NotParsed
    /\ UNCHANGED << config, concurrent, options, lexical >>

f32toa_slice ==
    /\ pc = "idle"
    /\ \E v \in Floats("f32"), base \in Bases, cap \in Capacities :
           toa_slice("f32", v, base, NoCall, cap, MAX_F32_SIZE)

\* f64toa_slice that checks the buffer against the f32 size.
f64toa_slice_f32_size ==
    /\ pc = "idle"
    /\ \E v \in Floats("f64"), base \in Bases, cap \in Capacities :
           toa_slice("f64", v, base, NoCall, cap, MAX_F32_SIZE)

f64toa_slice ==
    /\ pc = "idle"
    /\ \E v \in Floats("f64"), base \in Bases, cap \in Capacities :
           toa_slice("f64", v, base, NoCall, cap, MAX_F64_SIZE)

\* The caller formats the negation of the value it has just formatted,
\* in the same base and into the same buffer.
format_negated ==
    /\ pc = "done"
    /\ ~prev.valid
    /\ toa_slice(ty, Neg(arg), radix,
                 [valid |-> TRUE, value |-> arg, result |-> result],
                 capacity, MAX_SIZE(ty))

copy_to_dst(dst, src) == dst \o src

\* filter_sign that negates the value without writing the sign byte.
filter_sign_unsigned ==
    /\ pc = "filter_sign"
    /\ called' = called \cup {"filter_sign"}
    /\ IF trim_floats /\ is_zero(value)
       THEN /\ bytes' = << "0" >>
            /\ value' = value
            /\ pc' = "trim"
       ELSE IF is_sign_negative(value)
       THEN /\ bytes' = bytes
            /\ value' = Neg(value)
            /\ pc' = "filter_special"
       ELSE /\ bytes' = bytes
            /\ value' = value
            /\ pc' = "filter_special"
    /\ UNCHANGED << config, concurrent, options, lexical, ty, arg, radix, capacity, result, prev, parsed >>

\* filter_sign that handles the sign before the trimmed zero.
filter_sign_signed_zero ==
    /\ pc = "filter_sign"
    /\ called' = called \cup {"filter_sign"}
    /\ IF trim_floats /\ is_zero(value)
       THEN /\ bytes' = IF is_sign_negative(value)
                        THEN << "-", "0" >> ELSE << "0" >>
            /\ value' = value
            /\ pc' = "trim"
       ELSE IF is_sign_negative(value)
       THEN /\ bytes' = << "-" >>
            /\ value' = Neg(value)
            /\ pc' = "filter_special"
       ELSE /\ bytes' = bytes
            /\ value' = value
            /\ pc' = "filter_special"
    /\ UNCHANGED << config, concurrent, options, lexical, ty, arg, radix, capacity, result, prev, parsed >>

\* Handle +/- values.
filter_sign ==
    /\ pc = "filter_sign"
    /\ called' = called \cup {"filter_sign"}
    /\ IF trim_floats /\ is_zero(value)
       THEN /\ bytes' = << "0" >>
            /\ value' = value
            /\ pc' = "trim"
       ELSE IF is_sign_negative(value)
       THEN /\ bytes' = << "-" >>
            /\ value' = Neg(value)
            /\ pc' = "filter_special"
       ELSE /\ bytes' = bytes
            /\ value' = value
            /\ pc' = "filter_special"
    /\ UNCHANGED << config, concurrent, options, lexical, ty, arg, radix, capacity, result, prev, parsed >>

\* filter_special that tests only for NaN: infinities reach the encoder.
filter_special_nan_only ==
    /\ pc = "filter_special"
    /\ called' = called \cup {"filter_special"}
    /\ IF ~trim_floats /\ is_zero(value)
       THEN /\ bytes' = copy_to_dst(bytes, << "0", ".", "0" >>)
            /\ pc' = "trim"
       ELSE IF is_nan(value)
       THEN /\ bytes' = copy_to_dst(bytes, NAN_STRING)
            /\ pc' = "trim"
       ELSE /\ bytes' = bytes
            /\ pc' = "forward"
    /\ UNCHANGED << config, concurrent, options, lexical, ty, arg, radix, capacity, value, result, prev, parsed >>

\* filter_special that writes a zero without its fraction.
filter_special_short_zero ==
    /\ pc = "filter_special"
    /\ called' = called \cup {"filter_special"}
    /\ IF ~trim_floats /\ is_zero(value)
       THEN /\ bytes' = copy_to_dst(bytes, << "0" >>)
            /\ pc' = "trim"
       ELSE IF is_nan(value)
       THEN /\ bytes' = copy_to_dst(bytes, NAN_STRING)
            /\ pc' = "trim"
       ELSE IF is_special(value)
       THEN /\ bytes' = copy_to_dst(bytes, INF_STRING)
            /\ pc' = "trim"
       ELSE /\ bytes' = bytes
            /\ pc' = "forward"
    /\ UNCHANGED << config, concurrent, options, lexical, ty, arg, radix, capacity, value, result, prev, parsed >>

\* Convert float-to-string and handle special (positive) floats.
filter_special ==
    /\ pc = "filter_special"
    /\ called' = called \cup {"filter_special"}
    /\ IF ~trim_floats /\ is_zero(value)
       THEN /\ bytes' = copy_to_dst(bytes, << "0", ".", "0" >>)
            /\ pc' = "trim"
       ELSE IF is_nan(value)
       THEN /\ bytes' = copy_to_dst(bytes, NAN_STRING)
            /\ pc' = "trim"
       ELSE IF is_special(value)
       THEN /\ bytes' = copy_to_dst(bytes, INF_STRING)
            /\ pc' = "trim"
       ELSE /\ bytes' = bytes
            /\ pc' = "forward"
    /\ UNCHANGED << config, concurrent, options, lexical, ty, arg, radix, capacity, value, result, prev, parsed >>

\* FloatToString::decimal of either type.
decimal(t, v) == IF t = "f32" THEN float_decimal(v) ELSE double_decimal(v)

\* FloatToString::radix of either type.
radix_encoder(t, v, r) == IF t = "f32" THEN float_radix(v, r) ELSE double_radix(v, r)

\* Forward the correct arguments the ideal encoder.
forward ==
    /\ pc = "forward"
    /\ called' = called \cup {"forward"}
    /\ bytes' = bytes \o
           (IF ~radix_feature THEN decimal(ty, value)
            ELSE IF radix = 10 THEN decimal(ty, value)
            ELSE radix_encoder(ty, value, radix))
    /\ pc' = "trim"
    /\ UNCHANGED << config, concurrent, options, lexical, ty, arg, radix, capacity, value, result, prev, parsed >>

\* ftoa that counts the bytes of the body, without the sign byte.
ftoa_unsigned(written) ==
    IF written # << >> /\ written[1] = "-" THEN Len(written) - 1
    ELSE Len(written)

\* Bytes written: distance from the start of the buffer to the slice
\* filter_sign returned.
ftoa(written) == Len(written)

\* trim that returns the slice as it is.
trim_never(slc) == slc

\* trim that ignores the build feature.
trim_always(slc) ==
    IF ends_with_slice(slc, << ".", "0" >>)
    THEN SubSeq(slc, 1, Len(slc) - 2)
    ELSE slc

\* Trim a trailing ".0" from a float.
trim(slc) ==
    IF trim_floats
    THEN IF ends_with_slice(slc, << ".", "0" >>)
         THEN SubSeq(slc, 1, Len(slc) - 2)
         ELSE slc
    ELSE slc

\* f32toa_impl / f64toa_impl: the bytes written, trimmed, are returned.
toa_impl ==
    /\ pc = "trim"
    /\ result' = trim(SubSeq(bytes, 1, ftoa(bytes)))
    /\ pc' = "done"
    /\ UNCHANGED << config, concurrent, options, lexical, ty, arg, radix, capacity, value, bytes, called, prev, parsed >>

\* The round-trip tests parse the returned slice in the base it was
\* written in.
roundtrip ==
    /\ pc = "done"
    /\ ~parsed.valid
    /\ parsed' = [valid |-> TRUE,
                  value |-> atof(ty, result, radix, NAN_STRING, INF_STRING)]
    /\ UNCHANGED << config, concurrent, options, lexical, ty, arg, radix, capacity, value, bytes, pc, called, result, prev >>

Next ==
    \/ f32toa_slice
    \/ f64toa_slice
    \/ format_negated
    \/ filter_sign
    \/ filter_special
    \/ forward
    \/ toa_impl
    \/ roundtrip

Spec == Init /\ [][Next]_vars

\* ------------------------------------------------------------------------
\* Options (util/options.rs)
\* ------------------------------------------------------------------------

\* Largest number of fields a caller sets away from their defaults on one
\* builder.
MaxChanged == 3

Kinds == { "ParseIntegerOptions", "ParseFloatOptions",
           "WriteIntegerOptions", "WriteFloatOptions" }

FloatKinds == { "ParseFloatOptions", "WriteFloatOptions" }

\* Arguments callers pass to the setters.
RadixArgs == {0, 1, 2, 10, 14, 15, 16, 36, 37}

ExponentChars == {"2", "e", "E", "p", "z", "^"}

\* NumberFormat, as far as the options look at it: its digit separator.
STANDARD == [digit_separator |-> "NUL"]

ignore(digit_separator) == [digit_separator |-> digit_separator]

Formats == {STANDARD} \cup {ignore(c) : c \in {"0", "9", "A", "e", "_"}}

RoundingKinds == {"NearestTieEven", "TowardZero"}

NanArgs == { << >>, << "n", "a", "n" >>, << "N", "A", "N" >>, << "i", "n", "f" >> }

InfArgs == { << >>, << "i", "n", "f" >>, << "I", "N", "F" >>, << "n", "a", "n" >> }

InfinityArgs ==
    { << >>, << "n", "a", "n" >>, << "i", "n" >>, << "I", "N" >>,
      << "i", "n", "f", "i", "n", "i", "t", "y" >>,
      << "I", "N", "F", "I", "N", "I", "T", "Y" >> }

DEFAULT_FORMAT == STANDARD

DEFAULT_LOSSY == FALSE

DEFAULT_TRIM_FLOATS == FALSE

\* Process-wide defaults the builders start from.
get_float_rounding == "NearestTieEven"

get_nan_string == NAN_STRING

get_inf_string == INF_STRING

get_infinity_string == << "i", "n", "f", "i", "n", "i", "t", "y" >>

\* starts_with_n that knows the upper-case letter only.
starts_with_n_upper(s) == Len(s) >= 1 /\ s[1] = "N"

\* Check if byte array starts with case-insensitive N.
starts_with_n(s) == Len(s) >= 1 /\ s[1] \in {"N", "n"}

\* Check if byte array starts with case-insensitive I.
starts_with_i(s) == Len(s) >= 1 /\ s[1] \in {"I", "i"}

\* to_radix with the upper end of the range excluded.
to_radix_exclusive(r) ==
    IF radix_feature
    THEN IF r >= 2 /\ r < 36 THEN Some(r) ELSE None
    ELSE IF r = 10 THEN Some(r) ELSE None

\* Get radix if radix is valid.
to_radix(r) ==
    IF radix_feature
    THEN IF r >= 2 /\ r <= 36 THEN Some(r) ELSE None
    ELSE IF r = 10 THEN Some(r) ELSE None

\* to_exponent_char that looks for a decimal digit whatever the radix.
to_exponent_char_decimal(exponent_char, r) ==
    IF to_digit(exponent_char, 10) = -1 THEN Some(exponent_char) ELSE None

\* Get exponent character if character is valid.
to_exponent_char(exponent_char, r) ==
    IF to_digit(exponent_char, r) = -1 THEN Some(exponent_char) ELSE None

\* Get number format if format is valid.
to_format_integer(format, r) ==
    IF to_digit(format.digit_separator, r) = -1 THEN Some(format) ELSE None

\* to_format_float that does not compare the separator with the exponent
\* character.
to_format_float_digit_only(format, r, exponent_char) ==
    LET digit_separator == format.digit_separator
        is_valid_digit  == to_digit(digit_separator, r) = -1
    IN  IF is_valid_digit THEN Some(format) ELSE None

\* Get number format if format is valid.
to_format_float(format, r, exponent_char) ==
    LET digit_separator == format.digit_separator
        is_valid_digit  == to_digit(digit_separator, r) = -1
    IN  IF is_valid_digit /\ digit_separator # exponent_char
        THEN Some(format) ELSE None

\* Get rounding if rounding is valid.
to_rounding(rounding) ==
    IF rounding_feature THEN Some(rounding)
    ELSE IF rounding = "NearestTieEven" THEN Some(rounding) ELSE None

\* Get nan string if string is valid.
to_nan_string(nan_string) ==
    IF starts_with_n(nan_string) THEN Some(nan_string) ELSE None

\* to_inf_string that takes every string.
to_inf_string_unchecked(inf_string) == Some(inf_string)

\* Get inf string if string is valid.
to_inf_string(inf_string) ==
    IF starts_with_i(inf_string) THEN Some(inf_string) ELSE None

\* to_infinity_string that does not compare the lengths.
to_infinity_string_any_length(infinity_string, inf_string) ==
    LET starts_with == starts_with_i(infinity_string)
    IN  IF starts_with THEN Some(infinity_string) ELSE None

\* Get infinity string if string is valid.
to_infinity_string(infinity_string, inf_string) ==
    LET longer      == Len(infinity_string) >= Len(inf_string)
        starts_with == starts_with_i(infinity_string)
    IN  IF longer /\ starts_with THEN Some(infinity_string) ELSE None

ParseIntegerOptionsBuilder_new ==
    [radix |-> DEFAULT_RADIX, format |-> DEFAULT_FORMAT]

ParseIntegerOptionsBuilder_build(self) ==
    LET r      == to_radix(self.radix)
        format == to_format_integer(self.format, r.val)
    IN  IF ~r.some THEN None
        ELSE IF ~format.some THEN None
        ELSE Some([radix |-> r.val, format |-> format.val])

ParseFloatOptionsBuilder_new ==
    [lossy           |-> DEFAULT_LOSSY,
     exponent_char   |-> exponent_notation_char(DEFAULT_RADIX),
     radix           |-> DEFAULT_RADIX,
     format          |-> DEFAULT_FORMAT,
     rounding        |-> get_float_rounding,
     nan_string      |-> get_nan_string,
     inf_string      |-> get_inf_string,
     infinity_string |-> get_infinity_string]

ParseFloatOptionsBuilder_build(self) ==
    LET r               == to_radix(self.radix)
        exponent_char   == to_exponent_char(self.exponent_char, r.val)
        format          == to_format_float(self.format, r.val, exponent_char.val)
        rounding        == to_rounding(self.rounding)
        nan_string      == to_nan_string(self.nan_string)
        inf_string      == to_inf_string(self.inf_string)
        infinity_string == to_infinity_string(self.infinity_string, inf_string.val)
    IN  IF ~r.some THEN None
        ELSE IF ~exponent_char.some THEN None
        ELSE IF ~format.some THEN None
        ELSE IF ~rounding.some THEN None
        ELSE IF ~nan_string.some THEN None
        ELSE IF ~inf_string.some THEN None
        ELSE IF ~infinity_string.some THEN None
        ELSE Some([lossy           |-> self.lossy,
                   exponent_char   |-> exponent_char.val,
                   radix           |-> r.val,
                   format          |-> format.val,
                   rounding        |-> rounding.val,
                   nan_string      |-> nan_string.val,
                   inf_string      |-> inf_string.val,
                   infinity_string |-> infinity_string.val])

WriteIntegerOptionsBuilder_new == [radix |-> DEFAULT_RADIX]

WriteIntegerOptionsBuilder_build(self) ==
    LET r == to_radix(self.radix)
    IN  IF ~r.some THEN None ELSE Some([radix |-> r.val])

WriteFloatOptionsBuilder_new ==
    [exponent_char |-> exponent_notation_char(DEFAULT_RADIX),
     radix         |-> DEFAULT_RADIX,
     trim_floats   |-> DEFAULT_TRIM_FLOATS,
     nan_string    |-> get_nan_string,
     inf_string    |-> get_inf_string]

WriteFloatOptionsBuilder_build(self) ==
    LET r             == to_radix(self.radix)
        exponent_char == to_exponent_char(self.exponent_char, r.val)
        nan_string    == to_nan_string(self.nan_string)
        inf_string    == to_inf_string(self.inf_string)
    IN  IF ~r.some THEN None
        ELSE IF ~exponent_char.some THEN None
        ELSE IF ~nan_string.some THEN None
        ELSE IF ~inf_string.some THEN None
        ELSE Some([exponent_char |-> exponent_char.val,
                   radix         |-> r.val,
                   trim_floats   |-> self.trim_floats,
                   nan_string    |-> nan_string.val,
                   inf_string    |-> inf_string.val])

\* Builder::new() of the options type k.
new(k) ==
    CASE k = "ParseIntegerOptions" -> ParseIntegerOptionsBuilder_new
      [] k = "ParseFloatOptions"   -> ParseFloatOptionsBuilder_new
      [] k = "WriteIntegerOptions" -> WriteIntegerOptionsBuilder_new
      [] k = "WriteFloatOptions"   -> WriteFloatOptionsBuilder_new

\* Builder::build() of the options type k.
build_of(k, self) ==
    CASE k = "ParseIntegerOptions" -> ParseIntegerOptionsBuilder_build(self)
      [] k = "ParseFloatOptions"   -> ParseFloatOptionsBuilder_build(self)
      [] k = "WriteIntegerOptions" -> WriteIntegerOptionsBuilder_build(self)
      [] k = "WriteFloatOptions"   -> WriteFloatOptionsBuilder_build(self)

\* Fields of the builder that are away from their defaults.
Changed(k, self) == {f \in DOMAIN self : self[f] # new(k)[f]}

\* The builders the pre-defined constructors build from.
ParseIntegerOptions_binary == [ParseIntegerOptionsBuilder_new EXCEPT !.radix = 2]

ParseIntegerOptions_decimal == ParseIntegerOptionsBuilder_new

ParseIntegerOptions_hexadecimal == [ParseIntegerOptionsBuilder_new EXCEPT !.radix = 16]

ParseIntegerOptions_default == ParseIntegerOptionsBuilder_new

ParseFloatOptions_binary == [ParseFloatOptionsBuilder_new EXCEPT !.radix = 2]

ParseFloatOptions_decimal == ParseFloatOptionsBuilder_new

ParseFloatOptions_hexadecimal ==
    [ParseFloatOptionsBuilder_new EXCEPT !.radix = 16, !.exponent_char = "p"]

ParseFloatOptions_default == ParseFloatOptionsBuilder_new

WriteIntegerOptions_binary == [WriteIntegerOptionsBuilder_new EXCEPT !.radix = 2]

WriteIntegerOptions_decimal == WriteIntegerOptionsBuilder_new

WriteIntegerOptions_hexadecimal == [WriteIntegerOptionsBuilder_new EXCEPT !.radix = 16]

WriteIntegerOptions_default == WriteIntegerOptionsBuilder_new

WriteFloatOptions_binary == [WriteFloatOptionsBuilder_new EXCEPT !.radix = 2]

WriteFloatOptions_decimal == WriteFloatOptionsBuilder_new

WriteFloatOptions_hexadecimal ==
    [WriteFloatOptionsBuilder_new EXCEPT !.radix = 2, !.exponent_char = "p"]

WriteFloatOptions_default == WriteFloatOptionsBuilder_new

binary_of(k) ==
    CASE k = "ParseIntegerOptions" -> ParseIntegerOptions_binary
      [] k = "ParseFloatOptions"   -> ParseFloatOptions_binary
      [] k = "WriteIntegerOptions" -> WriteIntegerOptions_binary
      [] k = "WriteFloatOptions"   -> WriteFloatOptions_binary

decimal_of(k) ==
    CASE k = "ParseIntegerOptions" -> ParseIntegerOptions_decimal
      [] k = "ParseFloatOptions"   -> ParseFloatOptions_decimal
      [] k = "WriteIntegerOptions" -> WriteIntegerOptions_decimal
      [] k = "WriteFloatOptions"   -> WriteFloatOptions_decimal

hexadecimal_of(k) ==
    CASE k = "ParseIntegerOptions" -> ParseIntegerOptions_hexadecimal
      [] k = "ParseFloatOptions"   -> ParseFloatOptions_hexadecimal
      [] k = "WriteIntegerOptions" -> WriteIntegerOptions_hexadecimal
      [] k = "WriteFloatOptions"   -> WriteFloatOptions_hexadecimal

default_of(k) ==
    CASE k = "ParseIntegerOptions" -> ParseIntegerOptions_default
      [] k = "ParseFloatOptions"   -> ParseFloatOptions_default
      [] k = "WriteIntegerOptions" -> WriteIntegerOptions_default
      [] k = "WriteFloatOptions"   -> WriteFloatOptions_default

\* The features and the process-wide spellings an options value is
\* built under; no format call and no parse call is made.
InitOptions ==
    /\ trim_floats = FALSE
    /\ radix_feature \in BOOLEAN
    /\ NAN_STRING = << "N", "a", "N" >>
    /\ INF_STRING = << "i", "n", "f" >>
    /\ NoFormat
    /\ format_feature \in BOOLEAN
    /\ rounding_feature \in BOOLEAN
    /\ kind = "none"
    /\ builder = << >>
    /\ built = None
    /\ stage = "none"
    /\ origin = "none"
    /\ NoParse
    /\ NoThreads

\* XOptions::builder(): a fresh builder of one of the options types.
options_builder ==
    /\ stage = "none"
    /\ \E k \in Kinds :
           /\ kind' = k
           /\ builder' = new(k)
    /\ stage' = "builder"
    /\ origin' = "builder"
    /\ UNCHANGED << config, concurrent, call, lexical, format_feature, rounding_feature, built >>

\* A setter that leaves the field alone when handed a radix no build
\* accepts.
assign_validated(self, field, v) ==
    IF field = "radix" /\ ~to_radix(v).some THEN self
    ELSE [self EXCEPT ![field] = v]

\* Body of a setter (self.field = argument; self): the field takes the
\* argument, nothing else changes.
assign(self, field, v) == [self EXCEPT ![field] = v]

\* A setter of the builder.
set(field, v) ==
    /\ stage = "builder"
    /\ field \in DOMAIN builder
    /\ Cardinality(Changed(kind, assign(builder, field, v))) <= MaxChanged
    /\ builder' = assign(builder, field, v)
    /\ UNCHANGED << config, concurrent, call, lexical, format_feature, rounding_feature,
                    kind, built, stage, origin >>

builder_lossy == stage = "builder" /\ \E lossy \in BOOLEAN : set("lossy", lossy)

builder_exponent_char == stage = "builder" /\ \E c \in ExponentChars : set("exponent_char", c)

builder_radix == radix_feature /\ \E r \in RadixArgs : set("radix", r)

builder_format == format_feature /\ \E f \in Formats : set("format", f)

builder_rounding == rounding_feature /\ \E k \in RoundingKinds : set("rounding", k)

builder_trim_floats == stage = "builder" /\ \E t \in BOOLEAN : set("trim_floats", t)

builder_nan_string == stage = "builder" /\ \E str \in NanArgs : set("nan_string", str)

builder_inf_string == stage = "builder" /\ \E str \in InfArgs : set("inf_string", str)

builder_infinity_string == stage = "builder" /\ \E str \in InfinityArgs : set("infinity_string", str)

\* Builder::build().
build ==
    /\ stage = "builder"
    /\ built' = build_of(kind, builder)
    /\ stage' = "built"
    /\ UNCHANGED << config, concurrent, call, lexical, format_feature, rounding_feature,
                    kind, builder, origin >>

\* A pre-defined constructor: builder, setters, build and unwrap in one
\* call; unwrap panics on no value.
construct(fn, k, self) ==
    /\ stage = "none"
    /\ kind' = k
    /\ builder' = self
    /\ built' = build_of(k, self)
    /\ stage' = IF build_of(k, self).some THEN "built" ELSE "panic"
    /\ origin' = fn
    /\ UNCHANGED << config, concurrent, call, lexical, format_feature, rounding_feature >>

options_binary ==
    radix_feature /\ \E k \in Kinds : construct("binary", k, binary_of(k))

options_decimal == stage = "none" /\ \E k \in Kinds : construct("decimal", k, decimal_of(k))

options_hexadecimal ==
    radix_feature /\ \E k \in Kinds : construct("hexadecimal", k, hexadecimal_of(k))

options_default == stage = "none" /\ \E k \in Kinds : construct("default", k, default_of(k))

NextOptions ==
    \/ options_builder
    \/ builder_lossy
    \/ builder_exponent_char
    \/ builder_radix
    \/ builder_format
    \/ builder_rounding
    \/ builder_trim_floats
    \/ builder_nan_string
    \/ builder_inf_string
    \/ builder_infinity_string
    \/ build
    \/ options_binary
    \/ options_decimal
    \/ options_hexadecimal
    \/ options_default

SpecOptions == InitOptions /\ [][NextOptions]_vars

\* ------------------------------------------------------------------------
\* Parsing (lexical: parse, parse_radix, try_parse, try_parse_radix)
\* ------------------------------------------------------------------------

\* Longest byte string handed to a parse function.
MaxText == 4

\* Bytes of the inputs: digits of every base, a digit of base 36 only, the
\* point, the exponent marker and a sign.
Alphabet == {"0", "1", "a", ".", "e", "-"}

SpecialTexts ==
    { << "N", "a", "N" >>, << "i", "n", "f" >>, << "-", "i", "n", "f" >>,
      << "N", "a", "N", "1" >> }

\* The strings of the stress tests on the scale of the reduced floats: one
\* digit and a negative decimal exponent, whose values lie between two
\* adjacent floats, many of them close to the midpoint.
STRESS_TESTS ==
    { << d, "e", "-", k >> :
        d \in {"1", "2", "3", "4", "5", "6", "7", "8", "9"}, k \in {"1", "2"} }

Texts ==
    UNION {[1..n -> Alphabet] : n \in 0..MaxText} \cup SpecialTexts
        \cup STRESS_TESTS

\* Numeric types asked of the parse functions.
Numbers == {"i32", "f32", "f64"}

Ok(v) == [ok |-> TRUE, val |-> v]

Err(i) == [ok |-> FALSE, err |-> i]

\* Integer at the front of input in base r (optional sign, digits) and the
\* number of bytes that are part of it.
atoi(input, r) ==
    LET n      == Len(input)
        signed == n >= 1 /\ input[1] \in {"-", "+"}
        neg    == n >= 1 /\ input[1] = "-"
        ip     == parse_digits(input, IF signed THEN 2 ELSE 1, r, 0, 0)
    IN  [val |-> IF neg THEN 0 - ip.val ELSE ip.val,
         pos |-> IF ip.cnt > 0 THEN ip.pos - 1 ELSE 0]

\* Number of bytes at the front of input that are part of the float atof
\* returns: the sign and a special spelling, or the sign and a number.
atof_consumed(input, r, nan_string, inf_string) ==
    LET n      == Len(input)
        signed == n >= 1 /\ input[1] \in {"-", "+"}
        start  == IF signed THEN 2 ELSE 1
        body   == SubSeq(input, start, n)
        num    == number(input, start, r)
    IN  IF starts_with_slice(body, nan_string) THEN start - 1 + Len(nan_string)
        ELSE IF starts_with_slice(body, inf_string) THEN start - 1 + Len(inf_string)
        ELSE IF num.cnt > 0 THEN num.pos - 1
        ELSE 0

\* Aton::deserialize_from_bytes: the unchecked parser of the type.
deserialize_from_bytes(N, input, r) ==
    IF N = "i32" THEN atoi(input, r).val
    ELSE atof(N, input, r, NAN_STRING, INF_STRING)

\* Aton::try_deserialize_from_bytes: the value when every byte is part of
\* the number, else the offset of the first byte that is not.
try_deserialize_from_bytes(N, input, r) ==
    LET pos == IF N = "i32" THEN atoi(input, r).pos
               ELSE atof_consumed(input, r, NAN_STRING, INF_STRING)
    IN  IF pos = Len(input) THEN Ok(deserialize_from_bytes(N, input, r))
        ELSE Err(pos)

parse_radix(N, input, r) == deserialize_from_bytes(N, input, r)

\* parse that reads the bytes as hexadecimal.
parse_hexadecimal(N, input) == parse_radix(N, input, 16)

parse(N, input) == parse_radix(N, input, 10)

\* try_parse_radix that reads the bytes as decimal whatever the base.
try_parse_radix_decimal(N, input, r) == try_deserialize_from_bytes(N, input, 10)

try_parse_radix(N, input, r) == try_deserialize_from_bytes(N, input, r)

\* try_parse that reads the bytes as hexadecimal.
try_parse_hexadecimal(N, input) == try_parse_radix(N, input, 16)

try_parse(N, input) == try_parse_radix(N, input, 10)

\* A caller holds some bytes and asks for a number of some type; the
\* process has the default spellings.
InitParse ==
    /\ trim_floats = FALSE
    /\ radix_feature = TRUE
    /\ NAN_STRING = << "N", "a", "N" >>
    /\ INF_STRING = << "i", "n", "f" >>
    /\ NoFormat
    /\ NoOptions
    /\ text \in Texts
    /\ target \in Numbers
    /\ outcome = NoOutcome
    /\ NoThreads

call_parse ==
    /\ outcome = NoOutcome
    /\ outcome' = [fn |-> "parse", radix |-> 10, res |-> parse(target, text)]
    /\ UNCHANGED << config, concurrent, call, options, text, target >>

call_parse_radix ==
    /\ outcome = NoOutcome
    /\ \E r \in Radixes :
           outcome' = [fn |-> "parse_radix", radix |-> r,
                       res |-> parse_radix(target, text, r)]
    /\ UNCHANGED << config, concurrent, call, options, text, target >>

call_try_parse ==
    /\ outcome = NoOutcome
    /\ outcome' = [fn |-> "try_parse", radix |-> 10, res |-> try_parse(target, text)]
    /\ UNCHANGED << config, concurrent, call, options, text, target >>

call_try_parse_radix ==
    /\ outcome = NoOutcome
    /\ \E r \in Radixes :
           outcome' = [fn |-> "try_parse_radix", radix |-> r,
                       res |-> try_parse_radix(target, text, r)]
    /\ UNCHANGED << config, concurrent, call, options, text, target >>

NextParse ==
    \/ call_parse
    \/ call_parse_radix
    \/ call_try_parse
    \/ call_try_parse_radix

SpecParse == InitParse /\ [][NextParse]_vars

\* ------------------------------------------------------------------------
\* Format calls of several threads (ftoa/api.rs called concurrently)
\* ------------------------------------------------------------------------

\* Largest number of calls one thread makes.
MaxCalls == 2

\* The calls the threads make: a negative zero, a NaN, a negative
\* infinity, 1.0 and -1.5, of both types, in base 10 and base 2.
CallArgs ==
    { [ty |-> "f32", v |-> Neg(zero("f32")), base |-> 10],
      [ty |-> "f32", v |-> nan("f32"), base |-> 10],
      [ty |-> "f64", v |-> Neg(infinity("f64")), base |-> 2],
      [ty |-> "f64", v |-> [s |-> 0, e |-> ExpBias, m |-> 0], base |-> 10],
      [ty |-> "f32", v |-> [s |-> 1, e |-> ExpBias, m |-> Pow(2, MantBits32 - 1)],
       base |-> 2] }

\* Every thread is handed the buffer of the first thread.
buffer_shared(i) == 1

\* Destination buffer of thread i: the caller hands each call a buffer of
\* its own (bytes: &mut [u8]).
buffer_of(i) == i

\* The process has some spelling of NaN; no thread has made a call.
InitThreads ==
    /\ trim_floats \in BOOLEAN
    /\ radix_feature = TRUE
    /\ NAN_STRING \in NanSpellings
    /\ INF_STRING = << "i", "n", "f" >>
    /\ NoFormat
    /\ NoOptions
    /\ NoParse
    /\ NoThreads

\* Entry of a call that goes on writing behind the bytes the buffer holds.
thread_toa_slice_appending(i) ==
    /\ threads[i].pc = "idle"
    /\ Len(threads[i].returned) < MaxCalls
    /\ \E a \in CallArgs :
           threads' = [threads EXCEPT ![i] =
                          [@ EXCEPT !.pc = "filter_sign", !.ty = a.ty,
                                    !.arg = a.v, !.radix = a.base,
                                    !.value = a.v]]
    /\ UNCHANGED << config, call, options, lexical, buffers >>

\* Thread i enters f32toa_slice / f64toa_slice with a buffer of the
\* published size: ftoa takes the start of the buffer and enters
\* filter_sign.
thread_toa_slice(i) ==
    /\ threads[i].pc = "idle"
    /\ Len(threads[i].returned) < MaxCalls
    /\ \E a \in CallArgs :
           threads' = [threads EXCEPT ![i] =
                          [@ EXCEPT !.pc = "filter_sign", !.ty = a.ty,
                                    !.arg = a.v, !.radix = a.base,
                                    !.value = a.v]]
    /\ buffers' = [buffers EXCEPT ![buffer_of(i)] = << >>]
    /\ UNCHANGED << config, call, options, lexical >>

\* filter_sign in thread i.
thread_filter_sign(i) ==
    /\ threads[i].pc = "filter_sign"
    /\ IF trim_floats /\ is_zero(threads[i].value)
       THEN /\ buffers' = [buffers EXCEPT ![buffer_of(i)] = << "0" >>]
            /\ threads' = [threads EXCEPT ![i].pc = "trim"]
       ELSE IF is_sign_negative(threads[i].value)
       THEN /\ buffers' = [buffers EXCEPT ![buffer_of(i)] = << "-" >>]
            /\ threads' = [threads EXCEPT ![i].value = Neg(@),
                                          ![i].pc = "filter_special"]
       ELSE /\ buffers' = buffers
            /\ threads' = [threads EXCEPT ![i].pc = "filter_special"]
    /\ UNCHANGED << config, call, options, lexical >>

\* filter_special in thread i.
thread_filter_special(i) ==
    /\ threads[i].pc = "filter_special"
    /\ IF ~trim_floats /\ is_zero(threads[i].value)
       THEN /\ buffers' = [buffers EXCEPT ![buffer_of(i)] =
                              copy_to_dst(@, << "0", ".", "0" >>)]
            /\ threads' = [threads EXCEPT ![i].pc = "trim"]
       ELSE IF is_nan(threads[i].value)
       THEN /\ buffers' = [buffers EXCEPT ![buffer_of(i)] =
                              copy_to_dst(@, NAN_STRING)]
            /\ threads' = [threads EXCEPT ![i].pc = "trim"]
       ELSE IF is_special(threads[i].value)
       THEN /\ buffers' = [buffers EXCEPT ![buffer_of(i)] =
                              copy_to_dst(@, INF_STRING)]
            /\ threads' = [threads EXCEPT ![i].pc = "trim"]
       ELSE /\ buffers' = buffers
            /\ threads' = [threads EXCEPT ![i].pc = "forward"]
    /\ UNCHANGED << config, call, options, lexical >>

\* forward in thread i.
thread_forward(i) ==
    /\ threads[i].pc = "forward"
    /\ buffers' = [buffers EXCEPT ![buffer_of(i)] = @ \o
           (IF ~radix_feature THEN decimal(threads[i].ty, threads[i].value)
            ELSE IF threads[i].radix = 10
            THEN decimal(threads[i].ty, threads[i].value)
            ELSE radix_encoder(threads[i].ty, threads[i].value,
                               threads[i].radix))]
    /\ threads' = [threads EXCEPT ![i].pc = "trim"]
    /\ UNCHANGED << config, call, options, lexical >>

\* f32toa_impl / f64toa_impl in thread i: the bytes written, trimmed, are
\* returned to the caller, which keeps them.
thread_toa_impl(i) ==
    /\ threads[i].pc = "trim"
    /\ threads' = [threads EXCEPT
           ![i].pc = "idle",
           ![i].returned = Append(@,
               [ty |-> threads[i].ty, arg |-> threads[i].arg,
                radix |-> threads[i].radix,
                result |-> trim(SubSeq(buffers[buffer_of(i)], 1,
                                       ftoa(buffers[buffer_of(i)])))])]
    /\ UNCHANGED << config, call, options, lexical, buffers >>

NextThreads ==
    \/ \E i \in Threads : thread_toa_slice(i)
    \/ \E i \in Threads : thread_filter_sign(i)
    \/ \E i \in Threads : thread_filter_special(i)
    \/ \E i \in Threads : thread_forward(i)
    \/ \E i \in Threads : thread_toa_impl(i)

SpecThreads == InitThreads /\ [][NextThreads]_vars

\* ------------------------------------------------------------------------
\* Properties
\* ------------------------------------------------------------------------

Range(seq) == {seq[i] : i \in 1..Len(seq)}

Point == << ".", "0" >>

\* val * r^exp without the trailing zero digits of val.
RECURSIVE significant(_, _, _)
significant(val, exp, r) ==
    IF val > 0 /\ val % r = 0 THEN significant(val \div r, exp + 1, r)
    ELSE [val |-> val, exp |-> exp]

\* The digits and exponent written for the value of the finished call.
written == LET num == number(result, IF result # << >> /\ result[1] = "-"
                                     THEN 2 ELSE 1, radix)
           IN  significant(num.val, num.exp, radix)

\* C1: parsing in base 10 the bytes a base-10 format call returned for a
\* finite value yields a float equal to that value.
RoundTrip ==
    (parsed.valid /\ radix = 10 /\ is_finite(arg))
        => FloatEq(ty, parsed.value, arg)

RoundTripWitness ==
    /\ parsed.valid
    /\ radix = 10
    /\ is_finite(arg)
    /\ is_sign_negative(arg)
    /\ "forward" \in called
    /\ Len(result) >= 5
    /\ parsed.value = arg

\* C2: the digits a base-10 format call wrote for a positive finite
\* non-zero value are minimal: dropping the last digit, rounded down or
\* up, gives a number that no longer parses to the value.
ShortestOutput ==
    (pc = "done" /\ radix = 10 /\ is_finite(arg) /\ ~is_zero(arg)
                 /\ is_sign_positive(arg))
        => /\ written.val > 0
           /\ to_float(ty, written.val, written.exp, 10) = arg
           /\ written.val >= 10 =>
                  \A shorter \in {written.val \div 10, written.val \div 10 + 1} :
                      to_float(ty, shorter, written.exp + 1, 10) # arg

ShortestOutputWitness ==
    /\ pc = "done"
    /\ radix = 10
    /\ is_finite(arg)
    /\ ~is_zero(arg)
    /\ is_sign_positive(arg)
    /\ written.val >= 10

\* C3: for a non-zero finite or infinite value f and any base, the bytes
\* of format(-f) are '-' followed by the bytes of format(f).
SignSymmetry ==
    (pc = "done" /\ prev.valid /\ ~is_zero(arg) /\ ~is_nan(arg))
        => IF is_sign_negative(arg)
           THEN result = << "-" >> \o prev.result
           ELSE prev.result = << "-" >> \o result

SignSymmetryWitness ==
    /\ pc = "done"
    /\ prev.valid
    /\ is_finite(arg)
    /\ ~is_zero(arg)
    /\ is_sign_negative(arg)
    /\ "forward" \in called
    /\ radix # 10
    /\ result = << "-" >> \o prev.result

\* C4: for every NaN, whatever its sign bit and payload, and any base the
\* returned bytes are exactly the configured NaN spelling.
NanFidelity ==
    (pc = "done" /\ is_nan(arg)) => result = NAN_STRING

\* C5: for any base format(+inf) is the configured infinity spelling,
\* format(-inf) is '-' followed by it, and the digit generator is never
\* entered for an infinite value.
InfFidelity ==
    is_inf(arg)
        => /\ "forward" \notin called
           /\ pc # "forward"
           /\ pc = "done" =>
                  result = (IF is_sign_negative(arg) THEN << "-" >> ELSE << >>)
                               \o INF_STRING

InfFidelityWitness ==
    /\ pc = "done"
    /\ is_inf(arg)
    /\ is_sign_negative(arg)
    /\ radix # 10
    /\ result = << "-" >> \o INF_STRING

\* C6: without trimming, for any base and both types format(+0.0) is "0.0"
\* and format(-0.0) is "-0.0".
ZeroUntrimmed ==
    (pc = "done" /\ ~trim_floats /\ is_zero(arg))
        => result = (IF is_sign_negative(arg)
                     THEN << "-", "0", ".", "0" >> ELSE << "0", ".", "0" >>)

ZeroUntrimmedWitness ==
    /\ pc = "done"
    /\ ~trim_floats
    /\ is_zero(arg)
    /\ is_sign_negative(arg)
    /\ ty = "f64"
    /\ radix = 2
    /\ result = << "-", "0", ".", "0" >>

\* C7 as stated: in the default configuration (no trimming, base 10)
\* format(0.0) and format(-0.0) both return "0.0".
ZeroSameBytes ==
    (pc = "done" /\ ~trim_floats /\ radix = DEFAULT_RADIX /\ is_zero(arg))
        => result = << "0", ".", "0" >>

\* C7 as amended: in the default configuration (no trimming, base 10) the
\* bytes of format(0.0) and format(-0.0) are not the same: the zero
\* without the sign bit gives "0.0" and the zero with it the same bytes
\* after a '-'.
ZeroSignWritten ==
    (pc = "done" /\ prev.valid /\ ~trim_floats /\ radix = DEFAULT_RADIX
                 /\ is_zero(arg))
        => LET plus  == IF is_sign_negative(arg) THEN prev.result ELSE result
               minus == IF is_sign_negative(arg) THEN result ELSE prev.result
           IN  /\ plus = << "0", ".", "0" >>
               /\ minus = << "-" >> \o plus

ZeroSignWrittenWitness ==
    /\ pc = "done"
    /\ prev.valid
    /\ ~trim_floats
    /\ radix = DEFAULT_RADIX
    /\ is_zero(arg)
    /\ is_sign_positive(arg)
    /\ prev.result = << "-", "0", ".", "0" >>

\* C8: with trimming, for any base a zero of either sign is formatted as
\* the single byte "0" into a buffer of the published size, and the call
\* enters neither the special-value filter nor the digit generator.
ZeroTrimmed ==
    (trim_floats /\ is_zero(arg) /\ pc \notin {"idle", "panic", "filter_sign"})
        => /\ called = {"filter_sign"}
           /\ pc \in {"trim", "done"}
           /\ pc = "done" => result = << "0" >>

ZeroTrimmedWitness ==
    /\ pc = "done"
    /\ trim_floats
    /\ is_zero(arg)
    /\ is_sign_negative(arg)
    /\ result = << "0" >>

\* C9: with trimming, the bytes a format call returns never end in ".0",
\* whatever the value and the base.
NoTrailingPointZero ==
    (pc = "done" /\ trim_floats) => ~ends_with_slice(result, Point)

NoTrailingPointZeroWitness ==
    /\ pc = "done"
    /\ trim_floats
    /\ "forward" \in called
    /\ ends_with_slice(bytes, Point)
    /\ Len(result) = Len(bytes) - 2

\* C10: without trimming, the bytes a format call returns for a finite
\* value contain a decimal point, whatever the base and the layout.
HasPoint ==
    (pc = "done" /\ ~trim_floats /\ is_finite(arg)) => "." \in Range(result)

HasPointWitness ==
    /\ pc = "done"
    /\ ~trim_floats
    /\ is_finite(arg)
    /\ "forward" \in called
    /\ exponent_notation_char(radix) \in Range(result)
    /\ "." \in Range(result)

\* C11: a slice call whose buffer is shorter than the published size of
\* its width panics at once, whatever the value: nothing is entered,
\* written or returned.
ShortBufferPanics ==
    (pc # "idle" /\ capacity < MAX_SIZE(ty)) =>
        /\ pc = "panic"
        /\ called = {}
        /\ bytes = << >>
        /\ result = << >>

ShortBufferPanicsWitness ==
    /\ pc = "panic"
    /\ ty = "f64"
    /\ capacity = MAX_F64_SIZE - 1
    /\ is_finite(arg)
    /\ ~is_zero(arg)

Built == stage = "built" /\ origin = "builder"

\* The invariants of an options value (spec 3), stated on the fields of
\* the builder.
AllowedRadix(r) == IF radix_feature THEN r \in 2..36 ELSE r = 10

IsDigit(c, r) == \E d \in 0..(r - 1) : c \in {DigitChars[d + 1], LowerChars[d + 1]}

ExponentOk ==
    kind \in FloatKinds => ~IsDigit(builder.exponent_char, builder.radix)

SeparatorBad ==
    \/ IsDigit(builder.format.digit_separator, builder.radix)
    \/ /\ kind = "ParseFloatOptions"
       /\ builder.format.digit_separator = builder.exponent_char

SeparatorOk == "format" \in DOMAIN builder => ~SeparatorBad

RoundingOk ==
    "rounding" \in DOMAIN builder =>
        (rounding_feature \/ builder.rounding = "NearestTieEven")

NanBad == builder.nan_string = << >> \/ builder.nan_string[1] \notin {"N", "n"}

InfBad == builder.inf_string = << >> \/ builder.inf_string[1] \notin {"I", "i"}

SpellingsOk == kind \in FloatKinds => (~NanBad /\ ~InfBad)

LongInfinityOk ==
    kind = "ParseFloatOptions" =>
        /\ Len(builder.infinity_string) >= Len(builder.inf_string)
        /\ builder.infinity_string # << >>
        /\ builder.infinity_string[1] \in {"I", "i"}

\* C13: build returns no value when the radix is outside the allowed set
\* (2..36, or 10 alone without the radix feature), for each of the four
\* builders; a radix inside the set is kept, and build returns a value
\* with it when no other field is at fault.
RadixValidation ==
    /\ \A r \in RadixArgs : to_radix(r).some <=> AllowedRadix(r)
    /\ Built =>
        /\ ~AllowedRadix(builder.radix) => ~built.some
        /\ (/\ AllowedRadix(builder.radix)
            /\ ExponentOk /\ SeparatorOk /\ RoundingOk
            /\ SpellingsOk /\ LongInfinityOk)
           => (built.some /\ built.val.radix = builder.radix)

RadixValidationWitness ==
    /\ Built
    /\ kind = "WriteIntegerOptions"
    /\ radix_feature
    /\ builder.radix = 37
    /\ ~built.some

\* C14: for the two float builders, build returns no value when the
\* exponent character is a digit of the radix, and when no other field is
\* at fault it returns no value exactly then.
ExponentValidation ==
    (Built /\ kind \in FloatKinds /\ AllowedRadix(builder.radix)) =>
        /\ IsDigit(builder.exponent_char, builder.radix) => ~built.some
        /\ (SeparatorOk /\ RoundingOk /\ SpellingsOk /\ LongInfinityOk)
           => (built.some <=> ~IsDigit(builder.exponent_char, builder.radix))
        /\ built.some => built.val.exponent_char = builder.exponent_char

ExponentValidationWitness ==
    /\ Built
    /\ kind = "WriteFloatOptions"
    /\ builder.radix = 36
    /\ builder.exponent_char = "z"
    /\ SpellingsOk
    /\ ~built.some

\* C15: the two parse builders return no value when the digit separator
\* is a digit of the radix, the float builder also when it is the
\* exponent character; every other separator is kept, and build returns
\* a value with it when no other field is at fault.
SeparatorValidation ==
    (Built /\ "format" \in DOMAIN builder /\ AllowedRadix(builder.radix)) =>
        /\ SeparatorBad => ~built.some
        /\ (~SeparatorBad /\ ExponentOk /\ RoundingOk /\ SpellingsOk /\ LongInfinityOk)
           => (built.some /\ built.val.format = builder.format)

SeparatorValidationWitness ==
    /\ Built
    /\ kind = "ParseFloatOptions"
    /\ builder.radix = 10
    /\ builder.exponent_char = "e"
    /\ builder.format = ignore("e")
    /\ RoundingOk /\ SpellingsOk /\ LongInfinityOk
    /\ ~built.some

\* C16: the two float builders return no value when the NaN spelling is
\* empty or does not begin with N or n, or the short infinity spelling is
\* empty or does not begin with I or i; spellings that begin with those
\* letters are kept, and build returns a value with them when no other
\* field is at fault.
SpellingValidation ==
    (Built /\ kind \in FloatKinds) =>
        /\ (NanBad \/ InfBad) => ~built.some
        /\ (/\ ~NanBad /\ ~InfBad
            /\ AllowedRadix(builder.radix)
            /\ ExponentOk /\ SeparatorOk /\ RoundingOk /\ LongInfinityOk)
           => /\ built.some
              /\ built.val.nan_string = builder.nan_string
              /\ built.val.inf_string = builder.inf_string

SpellingValidationWitness ==
    /\ Built
    /\ kind = "WriteFloatOptions"
    /\ builder.nan_string = << >>
    /\ ~InfBad
    /\ AllowedRadix(builder.radix)
    /\ ExponentOk
    /\ ~built.some

\* Upper-case letters fold to lower case; other bytes stay.
lower(c) ==
    IF \E i \in 11..36 : DigitChars[i] = c
    THEN LowerChars[CHOOSE i \in 11..36 : DigitChars[i] = c]
    ELSE c

\* C17: the parse float builder returns a value only if the long
\* infinity spelling is at least as long as the short one and begins
\* with the same letter (I or i, in either case); a shorter long
\* spelling always gives no value.
LongInfinityValidation ==
    (Built /\ kind = "ParseFloatOptions") =>
        /\ built.some =>
            /\ Len(built.val.infinity_string) >= Len(built.val.inf_string)
            /\ lower(built.val.infinity_string[1]) = lower(built.val.inf_string[1])
        /\ Len(builder.infinity_string) < Len(builder.inf_string) => ~built.some

LongInfinityValidationWitness ==
    /\ Built
    /\ kind = "ParseFloatOptions"
    /\ builder.infinity_string = << "i", "n" >>
    /\ builder.inf_string = << "i", "n", "f" >>
    /\ AllowedRadix(builder.radix)
    /\ ExponentOk /\ SeparatorOk /\ RoundingOk /\ ~NanBad
    /\ ~built.some

\* C18: binary(), decimal(), hexadecimal() and default() of each of the
\* four options types return a value that satisfies the invariants, with
\* radix 2, 10, 16 and 10.
NamedConstructors ==
    origin \in {"binary", "decimal", "hexadecimal", "default"} =>
        /\ stage = "built"
        /\ built.some
        /\ AllowedRadix(built.val.radix)
        /\ ExponentOk /\ SeparatorOk /\ RoundingOk /\ SpellingsOk /\ LongInfinityOk
        /\ built.val.radix = (CASE origin = "binary" -> 2
                                [] origin = "hexadecimal" -> 16
                                [] OTHER -> 10)

\* The grammar of the texts (spec 6), written without the scanner: one or
\* more digits; then optionally a point and one or more digits; then
\* optionally the marker, an optional sign and one or more digits.
AllDigits(seq, r) == seq # << >> /\ \A i \in 1..Len(seq) : IsDigit(seq[i], r)

IsMantissa(m, r) ==
    \/ AllDigits(m, r)
    \/ \E p \in 2..(Len(m) - 1) :
           /\ m[p] = "."
           /\ AllDigits(SubSeq(m, 1, p - 1), r)
           /\ AllDigits(SubSeq(m, p + 1, Len(m)), r)

IsExponent(e, r) ==
    /\ Len(e) >= 2
    /\ e[1] = exponent_notation_char(r)
    /\ \/ AllDigits(Tail(e), r)
       \/ e[2] \in {"-", "+"} /\ AllDigits(Tail(Tail(e)), r)

IsUnsigned(u, r) ==
    \/ IsMantissa(u, r)
    \/ \E q \in 1..(Len(u) - 1) :
           /\ IsMantissa(SubSeq(u, 1, q), r)
           /\ IsExponent(SubSeq(u, q + 1, Len(u)), r)

Unsign(b) == IF b # << >> /\ b[1] \in {"-", "+"} THEN Tail(b) ELSE b

StartsSpecial(u) ==
    starts_with_slice(u, NAN_STRING) \/ starts_with_slice(u, INF_STRING)

\* The whole of b is one number of type N in base r: an optional sign,
\* then digits for an integer, and for a float a special spelling or,
\* when none is at the front, digits with fraction and exponent.
IsNumber(N, b, r) ==
    IF N = "i32" THEN AllDigits(Unsign(b), r)
    ELSE \/ Unsign(b) \in {NAN_STRING, INF_STRING}
         \/ ~StartsSpecial(Unsign(b)) /\ IsUnsigned(Unsign(b), r)

\* Length of the longest prefix of b that is one number; 0 when none is.
ValidPrefix(N, b, r) ==
    CHOOSE k \in 0..Len(b) :
        /\ k = 0 \/ IsNumber(N, SubSeq(b, 1, k), r)
        /\ \A j \in (k + 1)..Len(b) : ~IsNumber(N, SubSeq(b, 1, j), r)

\* The float 1.0.
One == [s |-> 0, e |-> ExpBias, m |-> 0]

\* C19: checked parsing returns a value only when the whole input is one
\* number, and otherwise the offset of the first byte that is not part
\* of the number at the front: 1 for "1a" as an integer, 1 for "1." and
\* 3 for "1.0." as a float.
CheckedParse ==
    outcome.fn \in {"try_parse", "try_parse_radix"} =>
        /\ outcome.res.ok => ValidPrefix(target, text, outcome.radix) = Len(text)
        /\ ~outcome.res.ok =>
            /\ outcome.res.err = ValidPrefix(target, text, outcome.radix)
            /\ outcome.res.err < Len(text)
        /\ (outcome.radix = 10 /\ target = "i32" /\ text = << "1", "a" >>)
           => outcome.res = Err(1)
        /\ (outcome.radix = 10 /\ target = "f32" /\ text = << "1", "." >>)
           => outcome.res = Err(1)
        /\ (outcome.radix = 10 /\ target = "f32" /\ text = << "1", ".", "0", "." >>)
           => outcome.res = Err(3)

CheckedParseWitness ==
    /\ outcome.fn = "try_parse"
    /\ target = "f32"
    /\ text = << "1", ".", "0", "." >>
    /\ outcome.res = Err(3)

\* The same number: equal integers, equal floats (the two zeros are
\* equal), or two NaNs.
SameNumber(N, a, b) ==
    IF N = "i32" THEN a = b
    ELSE (is_nan(a) /\ is_nan(b)) \/ FloatEq(N, a, b)

\* C20: unchecked parsing returns, for every input, the value of the
\* longest prefix that is one number, and zero when there is none (where
\* checked parsing of a non-empty input fails at offset 0): 1 for "1a"
\* as an integer, 1.0 for "1." as a float.
UncheckedParse ==
    outcome.fn \in {"parse", "parse_radix"} =>
        /\ SameNumber(target, outcome.res,
                parse_radix(target,
                    SubSeq(text, 1, ValidPrefix(target, text, outcome.radix)),
                    outcome.radix))
        /\ ValidPrefix(target, text, outcome.radix) = 0 =>
            /\ IF target = "i32" THEN outcome.res = 0 ELSE is_zero(outcome.res)
            /\ text # << >> => try_parse_radix(target, text, outcome.radix) = Err(0)
        /\ (outcome.radix = 10 /\ target = "i32" /\ text = << "1", "a" >>)
           => outcome.res = 1
        /\ (outcome.radix = 10 /\ target = "f32" /\ text = << "1", "." >>)
           => outcome.res = One

UncheckedParseWitness ==
    /\ outcome.fn = "parse"
    /\ target = "f32"
    /\ text = << "1", "." >>
    /\ outcome.res = One

IsDecimalExp(b) ==
    \E q \in 2..(Len(b) - 1) :
        /\ AllDigits(SubSeq(b, 1, q - 1), 10)
        /\ IsExponent(SubSeq(b, q, Len(b)), 10)

\* The integer the digits at the front of b spell and the decimal
\* exponent behind the marker.
DecimalMantissa(b) == parse_digits(b, 1, 10, 0, 0).val

DecimalExponent(b) ==
    LET q == parse_digits(b, 1, 10, 0, 0).pos
    IN  IF b[q + 1] = "-" THEN 0 - parse_digits(b, q + 2, 10, 0, 0).val
        ELSE IF b[q + 1] = "+" THEN parse_digits(b, q + 2, 10, 0, 0).val
        ELSE parse_digits(b, q + 1, 10, 0, 0).val

\* |largest finite float of type t| in grid units.
MaxMagnitude(t) == (Pow(2, MantBits(t) + 1) - 1) * Pow(2, SpecialExp - 2)

\* M * 10^K lies between the smallest and the largest positive finite
\* float of type t.
InRange(t, M, K) ==
    /\ M > 0
    /\ IF K >= 0
       THEN /\ scaled_capped(M, 10, K, Pow(2, SpecialExp - ExpBias))
                   < Pow(2, SpecialExp - ExpBias)
            /\ M * Pow(10, K) * Pow(2, GridBits(t)) <= MaxMagnitude(t)
       ELSE /\ ~power_exceeds(10, 0 - K, M * Pow(2, GridBits(t)))
            /\ M * Pow(2, GridBits(t)) <= MaxMagnitude(t) * Pow(10, 0 - K)

Abs(x) == IF x < 0 THEN 0 - x ELSE x

\* |w - M * 10^K| for a finite w, in grid units times the denominator of
\* M * 10^K.
Distance(t, w, M, K) ==
    IF K >= 0
    THEN Abs(Magnitude(t, w) - M * Pow(10, K) * Pow(2, GridBits(t)))
    ELSE Abs(Magnitude(t, w) * Pow(10, 0 - K) - M * Pow(2, GridBits(t)))

\* v is the finite positive float of type t nearest to M * 10^K, the one
\* of even mantissa when two are equally near.
IsNearest(t, v, M, K) ==
    /\ v.s = 0
    /\ is_finite(v)
    /\ \A w \in Floats(t) :
           (w.s = 0 /\ is_finite(w) /\ w # v) =>
               \/ Distance(t, v, M, K) < Distance(t, w, M, K)
               \/ Distance(t, v, M, K) = Distance(t, w, M, K) /\ v.m % 2 = 0

Returned == UNION { Range(threads[i].returned) : i \in Threads }

\* C23: two format calls with the same value and base return the same
\* bytes, whatever calls were made in between, and no call changes the
\* process-wide spellings of NaN and infinity.
Determinism ==
    /\ [](\A a, b \in Returned :
              (a.ty = b.ty /\ a.arg = b.arg /\ a.radix = b.radix)
                  => a.result = b.result)
    /\ [][NAN_STRING' = NAN_STRING /\ INF_STRING' = INF_STRING]_vars

\* A thread has made the same call twice, and the other thread another
\* call.
DeterminismWitness ==
    \E i, j \in Threads :
        /\ i # j
        /\ Len(threads[i].returned) = 2
        /\ threads[i].returned[1].arg = threads[i].returned[2].arg
        /\ threads[i].returned[1].radix = threads[i].returned[2].radix
        /\ threads[i].returned[1].result = threads[i].returned[2].result
        /\ Len(threads[j].returned) >= 1
        /\ threads[j].returned[1].arg # threads[i].returned[1].arg

\* The bytes a format call of value v of type t in base r returns: the
\* sign, the spelling of a special value or the digits, trimmed.
format(t, v, r) ==
    IF trim_floats /\ is_zero(v) THEN << "0" >>
    ELSE trim((IF is_sign_negative(v) THEN << "-" >> ELSE << >>) \o
              (IF is_zero(v) THEN << "0", ".", "0" >>
               ELSE IF is_nan(v) THEN NAN_STRING
               ELSE IF is_special(v) THEN INF_STRING
               ELSE IF r = 10 THEN decimal(t, [v EXCEPT !.s = 0])
               ELSE radix_encoder(t, [v EXCEPT !.s = 0], r)))

\* C24: under every interleaving of the format calls of the threads, each
\* on a buffer of its own, every call returns the bytes it returns when
\* it runs alone.
NoInterference ==
    \A a \in Returned : a.result = format(a.ty, a.arg, a.radix)

\* Both threads have returned from a call that wrote a sign, and the
\* second thread is inside its next call.
NoInterferenceWitness ==
    /\ Len(threads[1].returned) >= 1
    /\ threads[1].returned[1].result[1] = "-"
    /\ Len(threads[2].returned) >= 1
    /\ threads[2].returned[1].result[1] = "-"
    /\ threads[2].returned[1].arg # threads[1].returned[1].arg
    /\ threads[2].pc = "filter_special"

\* Every invariant of an options value holds for the fields of the
\* builder.
InvariantsHold ==
    /\ AllowedRadix(builder.radix)
    /\ ExponentOk
    /\ SeparatorOk
    /\ RoundingOk
    /\ SpellingsOk
    /\ LongInfinityOk

\* The builder with the field f, when it has one, set to v.
With(f, v) == IF f \in DOMAIN builder THEN [builder EXCEPT ![f] = v] ELSE builder

\* C25: build returns a value if and only if every invariant holds for
\* the final fields of the builder; every getter of the value returns
\* the field of the builder; lossy and trim_floats never decide whether a
\* value is returned.
BuildIffInvariants ==
    Built =>
        /\ built.some <=> InvariantsHold
        /\ built.some =>
            /\ DOMAIN built.val = DOMAIN builder
            /\ \A f \in DOMAIN builder : built.val[f] = builder[f]
        /\ \A b \in BOOLEAN :
            /\ build_of(kind, With("lossy", b)).some = built.some
            /\ build_of(kind, With("trim_floats", b)).some = built.some

\* A float builder with lossy, radix and exponent character away from
\* their defaults has built a value that returns them.
BuildIffInvariantsWitness ==
    /\ Built
    /\ kind = "ParseFloatOptions"
    /\ builder.lossy
    /\ builder.radix = 16
    /\ builder.exponent_char = "p"
    /\ built.some
    /\ built.val.lossy
    /\ built.val.radix = 16
    /\ built.val.exponent_char = "p"

\* Arguments the setter of field f is called with.
Args(f) ==
    CASE f = "lossy"           -> BOOLEAN
      [] f = "exponent_char"   -> ExponentChars
      [] f = "radix"           -> RadixArgs
      [] f = "format"          -> Formats
      [] f = "rounding"        -> RoundingKinds
      [] f = "trim_floats"     -> BOOLEAN
      [] f = "nan_string"      -> NanArgs
      [] f = "inf_string"      -> InfArgs
      [] f = "infinity_string" -> InfinityArgs

\* On the builder self: a setter gives its field the argument, valid or
\* not, and leaves the other fields alone; two setters of different
\* fields give the same builder in either order; of two calls of one
\* setter the later one counts.
Independent(self) ==
    \A f \in DOMAIN self : \A v \in Args(f) :
        LET set_f == assign(self, f, v)
        IN  /\ DOMAIN set_f = DOMAIN self
            /\ set_f[f] = v
            /\ \A g \in DOMAIN self \ {f} :
                /\ set_f[g] = self[g]
                /\ \A w \in Args(g) :
                       assign(set_f, g, w) = assign(assign(self, g, w), f, v)
            /\ \A w \in Args(f) : assign(set_f, f, w) = assign(self, f, w)

\* C26: the setters are independent and unvalidated.  Each replaces its
\* own field only and takes every argument; the builder, and so the
\* result of build, is the same in whatever order the setters were
\* called, and a value that was overwritten has no effect.  A step of a
\* builder that is not build changes one field and builds nothing.
SettersIndependent ==
    /\ [](stage = "builder" => Independent(builder))
    /\ [][(stage = "builder" /\ stage' = "builder") =>
             /\ kind' = kind
             /\ built' = None
             /\ \E f \in DOMAIN builder : \E v \in Args(f) :
                    builder' = [builder EXCEPT ![f] = v]]_vars
    /\ [](Built => built = build_of(kind, builder))

\* A builder holds a radix and an exponent character no build accepts,
\* next to a field that was set to a valid value.
SettersIndependentWitness ==
    /\ stage = "builder"
    /\ kind = "ParseFloatOptions"
    /\ builder.radix = 37
    /\ builder.exponent_char = "2"
    /\ builder.lossy

\* C27: trimming works on the finished output of the call.  The slice a
\* call returns starts at the first byte of the buffer; without trimming
\* it is all the bytes written, sign byte and body; with trimming it is
\* those bytes without their last two exactly when they end in ".0", and
\* all of them otherwise.
TrimPostProcessing ==
    pc = "done" =>
        /\ starts_with_slice(bytes, result)
        /\ IF trim_floats /\ ends_with_slice(bytes, Point)
           THEN result = SubSeq(bytes, 1, Len(bytes) - 2)
           ELSE result = bytes
        /\ is_sign_negative(arg) /\ ~(trim_floats /\ is_zero(arg))
               => result[1] = "-"

\* A negative value whose digits end in ".0" was written with its sign and
\* returned without the two bytes.
TrimPostProcessingWitness ==
    /\ pc = "done"
    /\ trim_floats
    /\ "forward" \in called
    /\ bytes[1] = "-"
    /\ ends_with_slice(bytes, Point)
    /\ result = SubSeq(bytes, 1, Len(bytes) - 2)
    /\ Len(result) >= 2

\* A build() call has returned for a float builder on which nothing but
\* the radix was set.
OnlyRadixSet ==
    /\ Built
    /\ kind \in FloatKinds
    /\ Changed(kind, builder) \subseteq {"radix"}

\* C28 as stated: with the exponent character left at its default, a float
\* builder builds for every radix from 2 to 15.
DefaultMarkerUpTo15 ==
    (OnlyRadixSet /\ builder.radix \in 2..15) => built.some

\* C28, amended: the default exponent character is 'e'; with it left at
\* its default a float builder builds for every radix from 2 to 14 and
\* for no radix from 15 on, where 'e' is a digit; with 'p' a builder of
\* radix 16 builds.
DefaultMarkerUpTo14 ==
    /\ \A k \in FloatKinds : new(k).exponent_char = "e"
    /\ OnlyRadixSet =>
        /\ builder.exponent_char = "e"
        /\ builder.radix \in 2..14 =>
               (built.some /\ built.val.exponent_char = "e"
                    /\ ~IsDigit("e", builder.radix))
        /\ builder.radix \in 15..36 =>
               (~built.some /\ IsDigit("e", builder.radix))
    /\ (/\ Built
        /\ kind \in FloatKinds
        /\ Changed(kind, builder) = {"radix", "exponent_char"}
        /\ builder.radix = 16
        /\ builder.exponent_char = "p") => built.some

\* A float builder with the radix set to 14 and nothing else has built a
\* value.
DefaultMarkerUpTo14Witness ==
    /\ OnlyRadixSet
    /\ kind = "WriteFloatOptions"
    /\ builder.radix = 14
    /\ built.some
    /\ built.val.exponent_char = "e"

====
